---- MODULE Spec2Model ----
\* Real-time vote fan-out of the polling API: VoteService (castVote, retractVote,
\* getPollResults, broadcastVoteUpdate), the Express error handler and
\* WebSocketService (subscription registry and broadcastToPoll).
\*
\* Every `await` of the JavaScript code is a suspension point.  An action is one
\* storage operation together with the synchronous continuation that runs when
\* its promise resolves; where the continuation touches shared in-memory state
\* (the registry, the sockets) the storage read and the continuation are two
\* actions, because other handlers run between them.
EXTENDS Integers, Sequences, FiniteSets, TLC

VARIABLES
  now,            \* Date.now(), in milliseconds
  polls,          \* ids of the persisted polls
  isPublished,    \* poll id -> publication flag
  options,        \* ids of the persisted poll options
  votes,          \* persisted vote rows
  nextVoteId,     \* next id the storage layer assigns to a vote row
  req,            \* HTTP requests: slot -> request record
  readyState,     \* connection -> ws.readyState
  wsSubs,         \* connection -> ws.subscriptions (Set of "poll:<id>" entries)
  subscriptions,  \* WebSocketService.subscriptions: pollId -> Set of connections
  pending,        \* subscribe_to_poll handlers suspended on Poll.find
  outbox,         \* connection -> messages sent on it, in order
  msgCount        \* websocket events so far: inbound messages and broadcast calls

vars == <<now, polls, isPublished, options, votes, nextVoteId, req,
          readyState, wsSubs, subscriptions, pending, outbox, msgCount>>

dbVars == <<polls, isPublished, options>>
wsVars == <<readyState, wsSubs, subscriptions, pending, msgCount>>

-----------------------------------------------------------------------------
\* Bounds of the model.

MaxReq == 2
MaxMsg == 1
\* Votes in a stored tally: of a two-option poll and of a three-option poll.
MaxVotes == 40
MaxVotes3 == 3
\* Websocket events in the specification of the registry.
MaxWsMsg == 3
\* Bound on the events of the one connection of SpecMulti.
MaxMultiMsg == 4

\* Program constants.

oneHour == 3600000
OPEN == 1

\* The instants the clock shows: around the start and around the end of the
\* retraction window of a vote cast at 0.
ClockValues == {0, oneHour, oneHour + 1}

Slots == 1..MaxReq
Users == {"u1", "u2"}
Conns == {"c1", "c2"}
\* The connection that is used where one is enough.
FirstConn == {"c1"}
PollIds == {"p1", "p2"}
OptionIds == {"a", "b", "c", "d"}
\* Identifiers a client can send: an id of no stored row, and (for the option,
\* which the controller reads from the query string) no id at all.  Of the two
\* options of the second poll one is sent; the other behaves alike.
GhostPoll == "p0"
GhostOption == "x"
VoteIds == 1..MaxReq
Missing == ""
PollArgs == PollIds \cup {GhostPoll}
OptionArgs == {"a", "b", "c", GhostOption, Missing}

\* The poll an option row belongs to (PollOption.pollId), and the options of a
\* poll in the order the storage layer lists them.
OptionPoll(o) ==
  IF o \in {"a", "b"} THEN "p1" ELSE IF o \in {"e", "f", "g"} THEN "p3" ELSE "p2"
OptionsOf(p) ==
  IF p = "p1" THEN <<"a", "b">>
  ELSE IF p = "p3" THEN <<"e", "f", "g">> ELSE <<"c", "d">>

-----------------------------------------------------------------------------
\* Errors and the Express error handler.

AppError(statusCode) ==
  [name |-> "Error", statusCode |-> statusCode, isOperational |-> TRUE,
   code |-> "", errors |-> FALSE]
\* ValidationError sets this.errors = [], which is truthy.
ValidationError == [AppError(400) EXCEPT !.errors = TRUE]
NotFoundError == AppError(404)
ForbiddenError == AppError(403)
ConflictError == AppError(409)
\* Errors that are not AppErrors carry no statusCode (0) and are not operational.
PrismaError(code) ==
  [name |-> "PrismaClientKnownRequestError", statusCode |-> 0,
   isOperational |-> FALSE, code |-> code, errors |-> FALSE]
TypeError ==
  [name |-> "TypeError", statusCode |-> 0, isOperational |-> FALSE,
   code |-> "", errors |-> FALSE]
\* What a socket's send throws.
SocketError ==
  [name |-> "Error", statusCode |-> 0, isOperational |-> FALSE,
   code |-> "", errors |-> FALSE]

\* (Variant: every storage error is a plain 500.)
handlePrismaErrorRaw(err) == AppError(500)

handlePrismaError(err) ==
  CASE err.code = "P2002" -> ConflictError
    [] err.code = "P2025" -> NotFoundError
    [] err.code = "P2003" -> ValidationError
    [] err.code = "P2000" -> ValidationError
    [] OTHER -> AppError(500)

\* The HTTP status of the response the handler sends for err.
errorHandler(err) ==
  LET e0 == IF err.statusCode = 0 THEN [err EXCEPT !.statusCode = 500] ELSE err
      e1 == IF e0.name = "PrismaClientKnownRequestError"
            THEN handlePrismaError(e0) ELSE e0
      e2 == IF e1.name = "ValidationError" \/ e1.errors
            THEN ValidationError ELSE e1
  IN IF e2.isOperational THEN e2.statusCode ELSE 500

-----------------------------------------------------------------------------
\* Storage queries (models over the Prisma client).  A query that finds no row
\* yields <<>> (null), one that finds a row yields <<row>>.

PollFind(id) ==
  IF id \in polls THEN <<[id |-> id, isPublished |-> isPublished[id]]>> ELSE <<>>

PollOptionFind(id) ==
  IF id \in options THEN <<[id |-> id, pollId |-> OptionPoll(id)]>> ELSE <<>>

getUserVotesForPoll(userId, pollId) ==
  {v \in votes : v.userId = userId /\ OptionPoll(v.pollOptionId) = pollId}

hasUserVotedOnPoll(pollId, userId) ==
  Cardinality(getUserVotesForPoll(userId, pollId)) > 0

\* BaseModel.find(id, include): the relation pollOption is loaded only when
\* asked for; otherwise the property is undefined (<<>>).
VoteFind(id, include) ==
  LET rows == {v \in votes : v.id = id}
  IN IF rows = {} THEN <<>>
     ELSE LET v == CHOOSE x \in rows : TRUE
          IN <<[id |-> v.id, userId |-> v.userId, pollOptionId |-> v.pollOptionId,
                createdAt |-> v.createdAt,
                pollOption |-> IF include
                               THEN <<[pollId |-> OptionPoll(v.pollOptionId)]>>
                               ELSE <<>>]>>

\* The uniqueness constraint of the votes table: a vote row holds userId and
\* pollOptionId, and the pair is unique.
UniqueViolation(userId, pollOptionId) ==
  \E v \in votes : v.userId = userId /\ v.pollOptionId = pollOptionId

-----------------------------------------------------------------------------
\* Poll Result Aggregator.

\* Math.round((n / d) * 100) in double-precision arithmetic.  Math.round takes
\* halves up.  The quotient n / d is rounded to a double before it is multiplied,
\* so the product can fall short of a half that 100 * n / d hits exactly:
\* (23 / 40) * 100 = 57.49999999999999, (29 / 200) * 100 = 14.499999999999998,
\* (57 / 200) * 100 = 28.499999999999996, (113 / 200) * 100 = 56.49999999999999.
\* These are all the cases with d <= 400.
FallsShort(n, d) ==
  \/ 40 * n = 23 * d
  \/ 200 * n = 29 * d
  \/ 200 * n = 57 * d
  \/ 200 * n = 113 * d

\* (Variant: percentages are rounded up to the next integer.)
Round100_Ceil(n, d) == (100 * n + d - 1) \div d

Round100(n, d) ==
  IF FallsShort(n, d) THEN (200 * n + d) \div (2 * d) - 1
  ELSE (200 * n + d) \div (2 * d)

RECURSIVE SumCounts(_)
SumCounts(s) == IF s = <<>> THEN 0 ELSE Head(s).voteCount + SumCounts(Tail(s))

\* VoteService.getPollResults on a poll that exists (Poll.findWithDetails
\* lists the options with their votes).
getPollResults(pollId) ==
  LET opts == SelectSeq(OptionsOf(pollId), LAMBDA o : o \in options)
      results == [i \in 1..Len(opts) |->
                    [id |-> opts[i],
                     voteCount |-> Cardinality({v \in votes : v.pollOptionId = opts[i]})]]
      totalVotes == SumCounts(results)
  IN [question |-> pollId,
      totalVotes |-> totalVotes,
      results |-> [i \in 1..Len(opts) |->
                     [id |-> results[i].id,
                      voteCount |-> results[i].voteCount,
                      percentage |-> IF totalVotes > 0
                                     THEN Round100(results[i].voteCount, totalVotes)
                                     ELSE 0]]]

-----------------------------------------------------------------------------
\* Broadcast Dispatcher.

\* (Variant: the state of the socket is not looked at.)
broadcastToPoll_AnyState(pollId, data) ==
  IF pollId \notin DOMAIN subscriptions THEN outbox
  ELSE LET message == [type |-> "poll_update", pollId |-> pollId,
                       data |-> data, timestamp |-> now]
       IN [c \in Conns |->
             IF c \in subscriptions[pollId]
             THEN Append(outbox[c], message) ELSE outbox[c]]

\* (Variant: the message goes to every open connection that has a subscription.)
broadcastToPoll_AnyPoll(pollId, data) ==
  IF pollId \notin DOMAIN subscriptions THEN outbox
  ELSE LET message == [type |-> "poll_update", pollId |-> pollId,
                       data |-> data, timestamp |-> now]
       IN [c \in Conns |->
             IF (\E p \in DOMAIN subscriptions : c \in subscriptions[p])
                /\ readyState[c] = OPEN
             THEN Append(outbox[c], message) ELSE outbox[c]]

\* WebSocketService.broadcastToPoll: the outbox after the call.
broadcastToPoll(pollId, data) ==
  IF pollId \notin DOMAIN subscriptions THEN outbox
  ELSE LET message == [type |-> "poll_update", pollId |-> pollId,
                       data |-> data, timestamp |-> now]
       IN [c \in Conns |->
             IF c \in subscriptions[pollId] /\ readyState[c] = OPEN
             THEN Append(outbox[c], message) ELSE outbox[c]]

\* VoteService.broadcastVoteUpdate: the payload handed to wss.broadcastToPoll.
\* broadcastToPoll when client.send throws inside the forEach: the exception
\* ends the iteration, so the message has gone to the open clients reached
\* before the throwing one and to no client after it.  (The Set iterates in
\* insertion order, which the registry of the model does not keep: the clients
\* reached before the throw are an input.)
broadcastToPoll_Throwing(pollId, data, reached) ==
  LET message == [type |-> "poll_update", pollId |-> pollId,
                  data |-> data, timestamp |-> now]
  IN [c \in Conns |->
        IF c \in reached /\ readyState[c] = OPEN
        THEN Append(outbox[c], message) ELSE outbox[c]]

VoteUpdate(pollId, results, userId, optionId) ==
  [type |-> "vote_update", pollId |-> pollId, results |-> results,
   userId |-> userId, optionId |-> optionId, timestamp |-> now]

\* (Variant: no websocket server is attached to the service.)
broadcastVoteUpdate_NoWss(pollId, results, userId, optionId) == outbox

broadcastVoteUpdate(pollId, results, userId, optionId) ==
  broadcastToPoll(pollId, VoteUpdate(pollId, results, userId, optionId))

-----------------------------------------------------------------------------
\* HTTP requests.

EmptyMap == [p \in {} |-> {}]

IdleReq ==
  [kind |-> "none", pc |-> "idle", pollId |-> Missing, optionId |-> Missing,
   userId |-> Missing, voteId |-> 0, vote |-> <<>>, results |-> <<>>,
   status |-> 0, stage |-> "", created |-> 0, raced |-> {}]

\* The response: the controller's 200, or the error handler's status.  A request
\* that has been answered keeps its outcome only (and, when it raced another
\* request of the same user on the same poll, whom it raced).
Respond(r, rec, status, stage) ==
  req' = [req EXCEPT ![r] =
            [IdleReq EXCEPT !.kind = rec.kind, !.pc = "done", !.status = status,
                            !.stage = stage, !.raced = rec.raced,
                            !.userId = IF rec.raced # {} THEN rec.userId ELSE Missing,
                            !.pollId = IF rec.raced # {} THEN rec.pollId ELSE Missing]]

Fail(r, rec, err, stage) == Respond(r, rec, errorHandler(err), stage)

\* Slots are taken in order.
CanStart(r) ==
  /\ req[r].pc = "idle"
  /\ \A q \in Slots : q < r => req[q].pc # "idle"

\* ---- Stored tallies ----

\* Users who voted before the requests of the model.
VoterNames ==
  <<"v01", "v02", "v03", "v04", "v05", "v06", "v07", "v08", "v09", "v10",
     "v11", "v12", "v13", "v14", "v15", "v16", "v17", "v18", "v19", "v20",
     "v21", "v22", "v23", "v24", "v25", "v26", "v27", "v28", "v29", "v30",
     "v31", "v32", "v33", "v34", "v35", "v36", "v37", "v38", "v39", "v40",
     "v41", "v42", "v43", "v44", "v45", "v46", "v47", "v48">>

RECURSIVE Offset(_, _)
Offset(counts, k) == IF k = 1 THEN 0 ELSE counts[k - 1] + Offset(counts, k - 1)

\* The vote rows of counts[k] users on the k-th of the options opts.
Rows(opts, counts) ==
  UNION {{[id |-> Offset(counts, k) + n,
           userId |-> VoterNames[Offset(counts, k) + n],
           pollOptionId |-> opts[k], createdAt |-> 0] : n \in 1..counts[k]}
         : k \in 1..Len(opts)}

Tallies2 == {d \in (0..MaxVotes) \X (0..MaxVotes) : d[1] + d[2] <= MaxVotes}
Tallies3 ==
  {d \in (0..MaxVotes3) \X (0..MaxVotes3) \X (0..MaxVotes3) :
     d[1] + d[2] + d[3] <= MaxVotes3}

VoteStores ==
  {Rows(OptionsOf("p1"), d) : d \in Tallies2}
    \cup {Rows(OptionsOf("p3"), d) : d \in Tallies3}

AggPolls == PollIds \cup {"p3"}

\* A database with a third, three-option poll and votes already cast.
InitAgg ==
  /\ now = 0
  /\ polls = AggPolls
  /\ isPublished = [p \in AggPolls |-> p # "p2"]
  /\ options = OptionIds \cup {"e", "f", "g"}
  /\ votes \in VoteStores
  /\ nextVoteId = Cardinality(votes) + 1
  /\ req = [r \in Slots |-> IdleReq]
  /\ readyState = [c \in Conns |-> 0]
  /\ wsSubs = [c \in Conns |-> {}]
  /\ subscriptions = EmptyMap
  /\ pending = {}
  /\ outbox = [c \in Conns |-> <<>>]
  /\ msgCount = 0

Init ==
  /\ now = 0
  /\ polls = PollIds
  /\ isPublished = [p \in PollIds |-> p = "p1"]
  /\ options = OptionIds
  /\ votes = {}
  /\ nextVoteId = 1
  /\ req = [r \in Slots |-> IdleReq]
  /\ readyState = [c \in Conns |-> 0]
  /\ wsSubs = [c \in Conns |-> {}]
  /\ subscriptions = EmptyMap
  /\ pending = {}
  /\ outbox = [c \in Conns |-> <<>>]
  /\ msgCount = 0

\* ---- VoteService.castVote ----

\* (Variant: no required-arguments check.)
castVote_Start_NoArgs(r, pollId, optionId, userId) ==
  /\ CanStart(r)
  /\ LET rec == [IdleReq EXCEPT !.kind = "cast", !.pollId = pollId,
                                !.optionId = optionId, !.userId = userId]
         poll == PollFind(pollId)
     IN IF poll = <<>>
        THEN Fail(r, rec, NotFoundError, "poll")
        ELSE IF ~poll[1].isPublished
        THEN Fail(r, rec, ForbiddenError, "published")
        ELSE req' = [req EXCEPT ![r] = [rec EXCEPT !.pc = "option"]]
  /\ UNCHANGED <<now, dbVars, votes, nextVoteId, wsVars, outbox>>

\* (Variant: no check of the publication flag.)
castVote_Start_NoPublished(r, pollId, optionId, userId) ==
  /\ CanStart(r)
  /\ LET rec == [IdleReq EXCEPT !.kind = "cast", !.pollId = pollId,
                                !.optionId = optionId, !.userId = userId]
         poll == PollFind(pollId)
     IN IF pollId = Missing \/ optionId = Missing \/ userId = Missing
        THEN Fail(r, rec, ValidationError, "args")
        ELSE IF poll = <<>>
        THEN Fail(r, rec, NotFoundError, "poll")
        ELSE req' = [req EXCEPT ![r] = [rec EXCEPT !.pc = "option"]]
  /\ UNCHANGED <<now, dbVars, votes, nextVoteId, wsVars, outbox>>

\* Entry: the required-arguments check, then Poll.find and the two checks on
\* the poll.
castVote_Start(r, pollId, optionId, userId) ==
  /\ CanStart(r)
  /\ LET rec == [IdleReq EXCEPT !.kind = "cast", !.pollId = pollId,
                                !.optionId = optionId, !.userId = userId]
         poll == PollFind(pollId)
     IN IF pollId = Missing \/ optionId = Missing \/ userId = Missing
        THEN Fail(r, rec, ValidationError, "args")
        ELSE IF poll = <<>>
        THEN Fail(r, rec, NotFoundError, "poll")
        ELSE IF ~poll[1].isPublished
        THEN Fail(r, rec, ForbiddenError, "published")
        ELSE req' = [req EXCEPT ![r] = [rec EXCEPT !.pc = "option"]]
  /\ UNCHANGED <<now, dbVars, votes, nextVoteId, wsVars, outbox>>

\* (Variant: the option is only checked to exist.)
castVote_Option_AnyPoll(r) ==
  /\ req[r].kind = "cast" /\ req[r].pc = "option"
  /\ LET option == PollOptionFind(req[r].optionId)
     IN IF option = <<>>
        THEN Fail(r, req[r], ValidationError, "option")
        ELSE req' = [req EXCEPT ![r].pc = "check"]
  /\ UNCHANGED <<now, dbVars, votes, nextVoteId, wsVars, outbox>>

\* PollOption.find and the check that the option belongs to the poll.
castVote_Option(r) ==
  /\ req[r].kind = "cast" /\ req[r].pc = "option"
  /\ LET option == PollOptionFind(req[r].optionId)
     IN IF option = <<>> \/ option[1].pollId # req[r].pollId
        THEN Fail(r, req[r], ValidationError, "option")
        ELSE req' = [req EXCEPT ![r].pc = "check"]
  /\ UNCHANGED <<now, dbVars, votes, nextVoteId, wsVars, outbox>>

\* Two requests of one user on one poll that have both passed the existing-vote
\* check and not yet inserted.
Racing(r, q) ==
  /\ q # r
  /\ req[q].kind = "cast" /\ req[q].pc = "insert"
  /\ req[q].userId = req[r].userId /\ req[q].pollId = req[r].pollId

\* (Variant: the current results are pushed before the existing-vote check.)
castVote_Check_Notify(r) ==
  /\ req[r].kind = "cast" /\ req[r].pc = "check"
  /\ outbox' = broadcastVoteUpdate(req[r].pollId, getPollResults(req[r].pollId),
                                   req[r].userId, req[r].optionId)
  /\ IF hasUserVotedOnPoll(req[r].pollId, req[r].userId)
     THEN Fail(r, req[r], ConflictError, "voted")
     ELSE req' = [q \in Slots |->
                    IF q = r
                    THEN [req[r] EXCEPT !.pc = "insert",
                                        !.raced = {x \in Slots : Racing(r, x)}]
                    ELSE IF Racing(r, q) THEN [req[q] EXCEPT !.raced = @ \cup {r}]
                    ELSE req[q]]
  /\ UNCHANGED <<now, dbVars, votes, nextVoteId, wsVars>>

\* hasUserVotedOnPoll: the existing-vote pre-check.
castVote_Check(r) ==
  /\ req[r].kind = "cast" /\ req[r].pc = "check"
  /\ IF hasUserVotedOnPoll(req[r].pollId, req[r].userId)
     THEN Fail(r, req[r], ConflictError, "voted")
     ELSE req' = [q \in Slots |->
                    IF q = r
                    THEN [req[r] EXCEPT !.pc = "insert",
                                        !.raced = {x \in Slots : Racing(r, x)}]
                    ELSE IF Racing(r, q) THEN [req[q] EXCEPT !.raced = @ \cup {r}]
                    ELSE req[q]]
  /\ UNCHANGED <<now, dbVars, votes, nextVoteId, wsVars, outbox>>

\* (Variant: the results are read before the insert.)
castVote_Create_ResultsFirst(r) ==
  /\ req[r].kind = "cast" /\ req[r].pc = "insert"
  /\ IF UniqueViolation(req[r].userId, req[r].optionId)
     THEN /\ Fail(r, req[r], PrismaError("P2002"), "insert")
          /\ UNCHANGED <<votes, nextVoteId>>
     ELSE /\ votes' = votes \cup {[id |-> nextVoteId, userId |-> req[r].userId,
                                   pollOptionId |-> req[r].optionId,
                                   createdAt |-> now]}
          /\ nextVoteId' = nextVoteId + 1
          /\ req' = [req EXCEPT ![r].pc = "broadcast", ![r].created = nextVoteId,
                                ![r].results = <<getPollResults(req[r].pollId)>>]
  /\ UNCHANGED <<now, dbVars, wsVars, outbox>>

\* Vote.create: the insert, which the storage layer rejects with P2002 on a
\* uniqueness violation.  The rejection propagates to the error handler.
castVote_Create(r) ==
  /\ req[r].kind = "cast" /\ req[r].pc = "insert"
  /\ IF UniqueViolation(req[r].userId, req[r].optionId)
     THEN /\ Fail(r, req[r], PrismaError("P2002"), "insert")
          /\ UNCHANGED <<votes, nextVoteId>>
     ELSE /\ votes' = votes \cup {[id |-> nextVoteId, userId |-> req[r].userId,
                                   pollOptionId |-> req[r].optionId,
                                   createdAt |-> now]}
          /\ nextVoteId' = nextVoteId + 1
          /\ req' = [req EXCEPT ![r].pc = "results", ![r].created = nextVoteId]
  /\ UNCHANGED <<now, dbVars, wsVars, outbox>>

\* ---- VoteService.retractVote ----

\* (Variant: a vote of exactly one hour is already too old.)
retractVote_Start_Strict(r, voteId, userId) ==
  /\ CanStart(r)
  /\ LET rec == [IdleReq EXCEPT !.kind = "retract", !.voteId = voteId,
                                !.userId = userId]
         vote == VoteFind(voteId, FALSE)
     IN IF userId = Missing
        THEN Fail(r, rec, ValidationError, "args")
        ELSE IF vote = <<>>
        THEN Fail(r, rec, NotFoundError, "vote")
        ELSE IF vote[1].userId # userId
        THEN Fail(r, rec, ForbiddenError, "owner")
        ELSE IF now - vote[1].createdAt >= oneHour
        THEN Fail(r, rec, ForbiddenError, "window")
        ELSE req' = [req EXCEPT ![r] = [rec EXCEPT !.pc = "delete", !.vote = vote]]
  /\ UNCHANGED <<now, dbVars, votes, nextVoteId, wsVars, outbox>>

\* (Variant: the age window is checked before the owner.)
retractVote_Start_WindowFirst(r, voteId, userId) ==
  /\ CanStart(r)
  /\ LET rec == [IdleReq EXCEPT !.kind = "retract", !.voteId = voteId,
                                !.userId = userId]
         vote == VoteFind(voteId, FALSE)
     IN IF userId = Missing
        THEN Fail(r, rec, ValidationError, "args")
        ELSE IF vote = <<>>
        THEN Fail(r, rec, NotFoundError, "vote")
        ELSE IF now - vote[1].createdAt > oneHour
        THEN Fail(r, rec, ForbiddenError, "window")
        ELSE IF vote[1].userId # userId
        THEN Fail(r, rec, ForbiddenError, "owner")
        ELSE req' = [req EXCEPT ![r] = [rec EXCEPT !.pc = "delete", !.vote = vote]]
  /\ UNCHANGED <<now, dbVars, votes, nextVoteId, wsVars, outbox>>

\* Entry: the required-arguments check, Vote.find (which loads no relation) and
\* the ownership and age checks.
retractVote_Start(r, voteId, userId) ==
  /\ CanStart(r)
  /\ LET rec == [IdleReq EXCEPT !.kind = "retract", !.voteId = voteId,
                                !.userId = userId]
         vote == VoteFind(voteId, FALSE)
     IN IF userId = Missing
        THEN Fail(r, rec, ValidationError, "args")
        ELSE IF vote = <<>>
        THEN Fail(r, rec, NotFoundError, "vote")
        ELSE IF vote[1].userId # userId
        THEN Fail(r, rec, ForbiddenError, "owner")
        ELSE IF now - vote[1].createdAt > oneHour
        THEN Fail(r, rec, ForbiddenError, "window")
        ELSE req' = [req EXCEPT ![r] = [rec EXCEPT !.pc = "delete", !.vote = vote]]
  /\ UNCHANGED <<now, dbVars, votes, nextVoteId, wsVars, outbox>>

\* (Variant: the TypeError comes before the delete.)
retractVote_Delete_Keep(r) ==
  /\ req[r].kind = "retract" /\ req[r].pc = "delete"
  /\ LET vote == req[r].vote[1]
     IN IF vote.pollOption = <<>>
        THEN /\ Fail(r, req[r], TypeError, "pollOption")
             /\ UNCHANGED votes
        ELSE IF \A v \in votes : v.id # req[r].voteId
        THEN /\ Fail(r, req[r], PrismaError("P2025"), "delete")
             /\ UNCHANGED votes
        ELSE /\ votes' = {v \in votes : v.id # req[r].voteId}
             /\ req' = [req EXCEPT ![r].pc = "results",
                                   ![r].pollId = vote.pollOption[1].pollId,
                                   ![r].optionId = vote.pollOptionId]
  /\ UNCHANGED <<now, dbVars, nextVoteId, wsVars, outbox>>

\* Vote.delete (P2025 when the row is gone), then the continuation up to the
\* call of getPollResults(vote.pollOption.pollId): reading pollId of an
\* undefined pollOption throws a TypeError.
retractVote_Delete(r) ==
  /\ req[r].kind = "retract" /\ req[r].pc = "delete"
  /\ LET vote == req[r].vote[1]
     IN IF \A v \in votes : v.id # req[r].voteId
        THEN /\ Fail(r, req[r], PrismaError("P2025"), "delete")
             /\ UNCHANGED votes
        ELSE /\ votes' = {v \in votes : v.id # req[r].voteId}
             /\ IF vote.pollOption = <<>>
                THEN Fail(r, req[r], TypeError, "pollOption")
                ELSE req' = [req EXCEPT ![r].pc = "results",
                                        ![r].pollId = vote.pollOption[1].pollId,
                                        ![r].optionId = vote.pollOptionId]
  /\ UNCHANGED <<now, dbVars, nextVoteId, wsVars, outbox>>

\* getPollResults: Poll.findWithDetails reads the tallies.
Results(r) ==
  /\ req[r].pc = "results"
  /\ IF req[r].pollId \notin polls
     THEN Fail(r, req[r], NotFoundError, "results")
     ELSE req' = [req EXCEPT ![r].pc = "broadcast",
                             ![r].results = <<getPollResults(req[r].pollId)>>]
  /\ UNCHANGED <<now, dbVars, votes, nextVoteId, wsVars, outbox>>

\* (Variant: the results are pushed to the subscribers of the poll.)
getPollResults_Call_Push(r, pollId) ==
  /\ CanStart(r)
  /\ LET rec == [IdleReq EXCEPT !.kind = "results", !.pollId = pollId]
     IN IF pollId = Missing
        THEN Fail(r, rec, ValidationError, "args") /\ UNCHANGED outbox
        ELSE IF pollId \notin polls
        THEN Fail(r, rec, NotFoundError, "poll") /\ UNCHANGED outbox
        ELSE /\ req' = [req EXCEPT ![r] =
                         [rec EXCEPT !.pc = "done", !.status = 200,
                                     !.results = <<getPollResults(pollId)>>]]
             /\ outbox' = broadcastToPoll(pollId, getPollResults(pollId))
  /\ UNCHANGED <<now, dbVars, votes, nextVoteId, wsVars>>

\* A call of getPollResults on its own: Poll.findWithDetails and the
\* computation on its answer.  The answered request keeps the value returned.
getPollResults_Call(r, pollId) ==
  /\ CanStart(r)
  /\ LET rec == [IdleReq EXCEPT !.kind = "results", !.pollId = pollId]
     IN IF pollId = Missing
        THEN Fail(r, rec, ValidationError, "args") /\ UNCHANGED outbox
        ELSE IF pollId \notin polls
        THEN Fail(r, rec, NotFoundError, "poll") /\ UNCHANGED outbox
        ELSE /\ req' = [req EXCEPT ![r] =
                         [rec EXCEPT !.pc = "done", !.status = 200,
                                     !.results = <<getPollResults(pollId)>>]]
             /\ UNCHANGED outbox
  /\ UNCHANGED <<now, dbVars, votes, nextVoteId, wsVars>>

\* The continuation after getPollResults: broadcastVoteUpdate, then the return
\* to the controller, which answers 200.
Broadcast(r) ==
  /\ req[r].pc = "broadcast"
  /\ outbox' = broadcastVoteUpdate(req[r].pollId, req[r].results[1],
                                   req[r].userId, req[r].optionId)
  /\ Respond(r, req[r], 200, "")
  /\ UNCHANGED <<now, dbVars, votes, nextVoteId, wsVars>>

\* The same continuation when the send on the open subscriber `bad` throws:
\* nothing catches the exception in broadcastToPoll, broadcastVoteUpdate or
\* castVote, so it reaches the error handler.
Broadcast_SendThrows(r, bad, reached) ==
  /\ req[r].pc = "broadcast"
  /\ req[r].pollId \in DOMAIN subscriptions
  /\ bad \in subscriptions[req[r].pollId] /\ readyState[bad] = OPEN
  /\ reached \subseteq subscriptions[req[r].pollId] \ {bad}
  /\ outbox' = broadcastToPoll_Throwing(
                  req[r].pollId,
                  VoteUpdate(req[r].pollId, req[r].results[1],
                             req[r].userId, req[r].optionId),
                  reached)
  /\ Fail(r, req[r], SocketError, "broadcast")
  /\ UNCHANGED <<now, dbVars, votes, nextVoteId, wsVars>>

-----------------------------------------------------------------------------
\* WebSocket connections and the Subscription Registry.

\* WebSocketService.send: the outbox after sending data on ws (dropped unless
\* the socket is open).
send(ws, data) ==
  IF readyState[ws] = OPEN THEN [outbox EXCEPT ![ws] = Append(@, data)] ELSE outbox

sendError(ws, message) ==
  send(ws, [type |-> "error", message |-> message, timestamp |-> now])

\* A client connects: the 'connection' handler gives it an empty set.
Connect(ws) ==
  /\ readyState[ws] = 0
  /\ readyState' = [readyState EXCEPT ![ws] = OPEN]
  /\ wsSubs' = [wsSubs EXCEPT ![ws] = {}]
  /\ UNCHANGED <<now, dbVars, votes, nextVoteId, req, subscriptions, pending,
                 outbox, msgCount>>

\* handleSubscribeToPoll up to its await: the pollId check, and Poll.find,
\* which answers or is rejected by the storage layer.
handleSubscribeToPoll_Start(ws, pollId, answers) ==
  /\ readyState[ws] = OPEN
  /\ msgCount' = msgCount + 1
  /\ IF pollId = Missing
     THEN /\ outbox' = sendError(ws, "Poll ID is required")
          /\ UNCHANGED pending
     ELSE /\ pending' = pending \cup {[id |-> msgCount + 1, ws |-> ws,
                                       pollId |-> pollId, rejected |-> ~answers,
                                       poll |-> IF answers THEN PollFind(pollId)
                                                ELSE <<>>]}
          /\ UNCHANGED outbox
  /\ UNCHANGED <<now, dbVars, votes, nextVoteId, req, readyState, wsSubs,
                 subscriptions>>

\* (Variant: subscribing again withdraws the subscription.)
AddSubscription_Toggle(ws, pollId) ==
  IF pollId \in DOMAIN subscriptions /\ ws \in subscriptions[pollId]
  THEN [p \in DOMAIN subscriptions |->
          IF p = pollId THEN subscriptions[p] \ {ws} ELSE subscriptions[p]]
  ELSE [p \in DOMAIN subscriptions \cup {pollId} |->
          IF p = pollId
          THEN (IF p \in DOMAIN subscriptions THEN subscriptions[p] ELSE {}) \cup {ws}
          ELSE subscriptions[p]]

\* (Variant: a connection watches one poll at a time.)
AddSubscription_Single(ws, pollId) ==
  [p \in {q \in DOMAIN subscriptions : subscriptions[q] # {ws}} \cup {pollId} |->
     IF p = pollId
     THEN (IF p \in DOMAIN subscriptions THEN subscriptions[p] ELSE {}) \cup {ws}
     ELSE subscriptions[p] \ {ws}]

\* The Map and Set updates of a subscription.
AddSubscription(ws, pollId) ==
  [p \in DOMAIN subscriptions \cup {pollId} |->
     IF p = pollId
     THEN (IF p \in DOMAIN subscriptions THEN subscriptions[p] ELSE {}) \cup {ws}
     ELSE subscriptions[p]]

\* (Variant: a rejection of Poll.find is not caught.)
handleSubscribeToPoll_Resume_NoCatch(m) ==
  /\ m \in pending
  /\ pending' = pending \ {m}
  /\ IF m.rejected
     THEN UNCHANGED <<outbox, subscriptions, wsSubs>>
     ELSE IF m.poll = <<>>
     THEN /\ outbox' = sendError(m.ws, "Poll not found")
          /\ UNCHANGED <<subscriptions, wsSubs>>
     ELSE IF ~m.poll[1].isPublished
     THEN /\ outbox' = sendError(m.ws, "Cannot subscribe to unpublished poll")
          /\ UNCHANGED <<subscriptions, wsSubs>>
     ELSE /\ subscriptions' = AddSubscription(m.ws, m.pollId)
          /\ wsSubs' = [wsSubs EXCEPT ![m.ws] = @ \cup {<<"poll", m.pollId>>}]
          /\ outbox' = send(m.ws, [type |-> "subscription_confirmed",
                                   pollId |-> m.pollId])
  /\ UNCHANGED <<now, dbVars, votes, nextVoteId, req, readyState, msgCount>>

\* handleSubscribeToPoll after Poll.find has answered or has been rejected.
handleSubscribeToPoll_Resume(m) ==
  /\ m \in pending
  /\ pending' = pending \ {m}
  /\ IF m.rejected
     THEN /\ outbox' = sendError(m.ws, "Failed to subscribe to poll")
          /\ UNCHANGED <<subscriptions, wsSubs>>
     ELSE IF m.poll = <<>>
     THEN /\ outbox' = sendError(m.ws, "Poll not found")
          /\ UNCHANGED <<subscriptions, wsSubs>>
     ELSE IF ~m.poll[1].isPublished
     THEN /\ outbox' = sendError(m.ws, "Cannot subscribe to unpublished poll")
          /\ UNCHANGED <<subscriptions, wsSubs>>
     ELSE /\ subscriptions' = AddSubscription(m.ws, m.pollId)
          /\ wsSubs' = [wsSubs EXCEPT ![m.ws] = @ \cup {<<"poll", m.pollId>>}]
          /\ outbox' = send(m.ws, [type |-> "subscription_confirmed",
                                   pollId |-> m.pollId])
  /\ UNCHANGED <<now, dbVars, votes, nextVoteId, req, readyState, msgCount>>

\* (Variant: the whole subscriber set of the poll is dropped.)
RemoveSubscription_All(subs, ws, pollId) ==
  [p \in DOMAIN subs \ {pollId} |-> subs[p]]

\* (Variant: an emptied set stays in the map.)
RemoveSubscription_NoPrune(subs, ws, pollId) ==
  [p \in DOMAIN subs |-> IF p = pollId THEN subs[p] \ {ws} ELSE subs[p]]

\* The registry without ws under pollId; an emptied set is deleted.
RemoveSubscription(subs, ws, pollId) ==
  LET keep == {p \in DOMAIN subs : p # pollId \/ subs[p] \ {ws} # {}}
  IN [p \in keep |-> IF p = pollId THEN subs[p] \ {ws} ELSE subs[p]]

\* (Variant: the connection's own set keeps the entry.)
handleUnsubscribeFromPoll_MapOnly(ws, pollId) ==
  /\ readyState[ws] = OPEN
  /\ msgCount' = msgCount + 1
  /\ IF pollId # Missing /\ pollId \in DOMAIN subscriptions
     THEN /\ subscriptions' = RemoveSubscription(subscriptions, ws, pollId)
          /\ outbox' = send(ws, [type |-> "unsubscription_confirmed", pollId |-> pollId])
          /\ UNCHANGED wsSubs
     ELSE UNCHANGED <<subscriptions, wsSubs, outbox>>
  /\ UNCHANGED <<now, dbVars, votes, nextVoteId, req, readyState, pending>>

\* handleUnsubscribeFromPoll: nothing happens, and nothing is sent, unless the
\* poll has a subscriber set.
handleUnsubscribeFromPoll(ws, pollId) ==
  /\ readyState[ws] = OPEN
  /\ msgCount' = msgCount + 1
  /\ IF pollId # Missing /\ pollId \in DOMAIN subscriptions
     THEN /\ subscriptions' = RemoveSubscription(subscriptions, ws, pollId)
          /\ wsSubs' = [wsSubs EXCEPT ![ws] = @ \ {<<"poll", pollId>>}]
          /\ outbox' = send(ws, [type |-> "unsubscription_confirmed",
                                 pollId |-> pollId])
     ELSE UNCHANGED <<subscriptions, wsSubs, outbox>>
  /\ UNCHANGED <<now, dbVars, votes, nextVoteId, req, readyState, pending>>

\* A service calls wss.broadcastToPoll with the results of the poll.
wssBroadcast(pollId) ==
  /\ msgCount' = msgCount + 1
  /\ outbox' = broadcastToPoll(pollId, getPollResults(pollId))
  /\ UNCHANGED <<now, dbVars, votes, nextVoteId, req, readyState, wsSubs,
                 subscriptions, pending>>

RECURSIVE DisconnectAll(_, _, _)
DisconnectAll(subs, ws, entries) ==
  IF entries = {} THEN subs
  ELSE LET e == CHOOSE x \in entries : TRUE
       IN DisconnectAll(IF e[1] = "poll" /\ e[2] \in DOMAIN subs
                        THEN RemoveSubscription(subs, ws, e[2]) ELSE subs,
                        ws, entries \ {e})

\* The socket closes: the 'close' handler runs handleDisconnect.
handleDisconnect(ws) ==
  /\ readyState[ws] = OPEN
  /\ readyState' = [readyState EXCEPT ![ws] = 3]
  /\ subscriptions' = DisconnectAll(subscriptions, ws, wsSubs[ws])
  /\ UNCHANGED <<now, dbVars, votes, nextVoteId, req, wsSubs, pending, outbox,
                 msgCount>>

-----------------------------------------------------------------------------
\* PollService (src/services/pollService.js).

\* The creator of every poll.
Creator(pollId) == "u1"

\* What the evaluation of an unbound identifier throws.
ReferenceError ==
  [name |-> "ReferenceError", statusCode |-> 0, isOperational |-> FALSE,
   code |-> "", errors |-> FALSE]

\* PollService.updatePoll as publishPoll and unpublishPoll call it, up to the
\* await of Poll.update.  The argument check evaluates Joi.object(...), and the
\* module binds no Joi: joi tells whether the name resolves.
updatePoll_Start(r, pollId, userId, publish, joi) ==
  /\ CanStart(r)
  /\ LET rec == [IdleReq EXCEPT !.kind = IF publish THEN "publish" ELSE "unpublish",
                                !.pollId = pollId, !.userId = userId]
     IN IF ~joi
        THEN Fail(r, rec, ReferenceError, "args")
        ELSE IF pollId = Missing
        THEN Fail(r, rec, ValidationError, "args")
        ELSE IF PollFind(pollId) = <<>>
        THEN Fail(r, rec, NotFoundError, "poll")
        ELSE IF Creator(pollId) # userId
        THEN Fail(r, rec, ForbiddenError, "owner")
        ELSE req' = [req EXCEPT ![r] = [rec EXCEPT !.pc = "update"]]
  /\ UNCHANGED <<now, dbVars, votes, nextVoteId, wsVars, outbox>>

\* Poll.update with the publication flag, and the answer.
updatePoll_Write(r) ==
  /\ req[r].kind \in {"publish", "unpublish"} /\ req[r].pc = "update"
  /\ isPublished' = [isPublished EXCEPT ![req[r].pollId] = (req[r].kind = "publish")]
  /\ Respond(r, req[r], 200, "")
  /\ UNCHANGED <<now, polls, options, votes, nextVoteId, wsVars, outbox>>

\* PollService.deletePollOption.  Each await is a step: the option with its
\* poll and the owner check, ...
deletePollOption_Start(r, optionId, userId, joi) ==
  /\ CanStart(r)
  /\ LET rec == [IdleReq EXCEPT !.kind = "deleteOption", !.optionId = optionId,
                                !.userId = userId]
         option == PollOptionFind(optionId)
     IN IF ~joi
        THEN Fail(r, rec, ReferenceError, "args")
        ELSE IF optionId = Missing
        THEN Fail(r, rec, ValidationError, "args")
        ELSE IF option = <<>>
        THEN Fail(r, rec, NotFoundError, "option")
        ELSE IF Creator(option[1].pollId) # userId
        THEN Fail(r, rec, ForbiddenError, "owner")
        ELSE req' = [req EXCEPT ![r] = [rec EXCEPT !.pc = "count",
                                                   !.pollId = option[1].pollId]]
  /\ UNCHANGED <<now, dbVars, votes, nextVoteId, wsVars, outbox>>

\* ... Vote.countByOptionId, ...
deletePollOption_Count(r) ==
  /\ req[r].kind = "deleteOption" /\ req[r].pc = "count"
  /\ IF Cardinality({v \in votes : v.pollOptionId = req[r].optionId}) > 0
     THEN Fail(r, req[r], ConflictError, "votes")
     ELSE req' = [req EXCEPT ![r].pc = "remaining"]
  /\ UNCHANGED <<now, dbVars, votes, nextVoteId, wsVars, outbox>>

\* ... PollOption.getByPollId, ...
deletePollOption_Remaining(r) ==
  /\ req[r].kind = "deleteOption" /\ req[r].pc = "remaining"
  /\ IF Cardinality({o \in options : OptionPoll(o) = req[r].pollId}) <= 2
     THEN Fail(r, req[r], ConflictError, "remaining")
     ELSE req' = [req EXCEPT ![r].pc = "delete"]
  /\ UNCHANGED <<now, dbVars, votes, nextVoteId, wsVars, outbox>>

\* ... and PollOption.delete.  A row that is gone makes the delete fail
\* (P2025).  What the storage does with the votes of the deleted option is the
\* referential action of the schema: it refuses the delete (P2003) or deletes
\* the votes with the option.
ReferentialActions == {"Restrict", "Cascade"}

deletePollOption_Delete(r, onDelete) ==
  /\ req[r].kind = "deleteOption" /\ req[r].pc = "delete"
  /\ LET voted == {v \in votes : v.pollOptionId = req[r].optionId}
     IN IF req[r].optionId \notin options
        THEN /\ Fail(r, req[r], PrismaError("P2025"), "delete")
             /\ UNCHANGED <<options, votes>>
        ELSE IF voted # {} /\ onDelete = "Restrict"
        THEN /\ Fail(r, req[r], PrismaError("P2003"), "delete")
             /\ UNCHANGED <<options, votes>>
        ELSE /\ options' = options \ {req[r].optionId}
             /\ votes' = votes \ voted
             /\ Respond(r, req[r], 200, "")
  /\ UNCHANGED <<now, polls, isPublished, nextVoteId, wsVars, outbox>>

\* Vote.create for an option that has been deleted: the foreign key fails.
castVote_Create_NoOption(r) ==
  /\ req[r].kind = "cast" /\ req[r].pc = "insert"
  /\ req[r].optionId \notin options
  /\ Fail(r, req[r], PrismaError("P2003"), "insert")
  /\ UNCHANGED <<now, dbVars, votes, nextVoteId, wsVars, outbox>>

\* PollService.voteOnPoll, the vote entry point of the poll routes.

\* Vote.findByUserAndPollOption: the votes of the user on the option.
findByUserAndPollOption(userId, pollOptionId) ==
  {v \in votes : v.userId = userId /\ v.pollOptionId = pollOptionId}

voteOnPoll_Start(r, pollId, optionId, userId) ==
  /\ CanStart(r)
  /\ LET rec == [IdleReq EXCEPT !.kind = "pollvote", !.pollId = pollId,
                                !.optionId = optionId, !.userId = userId]
         poll == PollFind(pollId)
     IN IF pollId = Missing \/ optionId = Missing \/ userId = Missing
        THEN Fail(r, rec, ValidationError, "args")
        ELSE IF poll = <<>>
        THEN Fail(r, rec, NotFoundError, "poll")
        ELSE IF ~poll[1].isPublished
        THEN Fail(r, rec, ForbiddenError, "published")
        ELSE req' = [req EXCEPT ![r] = [rec EXCEPT !.pc = "option"]]
  /\ UNCHANGED <<now, dbVars, votes, nextVoteId, wsVars, outbox>>

voteOnPoll_Option(r) ==
  /\ req[r].kind = "pollvote" /\ req[r].pc = "option"
  /\ LET option == PollOptionFind(req[r].optionId)
     IN IF option = <<>> \/ option[1].pollId # req[r].pollId
        THEN Fail(r, req[r], ValidationError, "option")
        ELSE req' = [req EXCEPT ![r].pc = "check"]
  /\ UNCHANGED <<now, dbVars, votes, nextVoteId, wsVars, outbox>>

\* (Variant: the existing vote is looked up by poll.)
voteOnPoll_Check_ByPoll(r) ==
  /\ req[r].kind = "pollvote" /\ req[r].pc = "check"
  /\ IF getUserVotesForPoll(req[r].userId, req[r].pollId) # {}
     THEN Fail(r, req[r], ConflictError, "voted")
     ELSE req' = [req EXCEPT ![r].pc = "insert"]
  /\ UNCHANGED <<now, dbVars, votes, nextVoteId, wsVars, outbox>>

voteOnPoll_Check(r) ==
  /\ req[r].kind = "pollvote" /\ req[r].pc = "check"
  /\ IF findByUserAndPollOption(req[r].userId, req[r].optionId) # {}
     THEN Fail(r, req[r], ConflictError, "voted")
     ELSE req' = [req EXCEPT ![r].pc = "insert"]
  /\ UNCHANGED <<now, dbVars, votes, nextVoteId, wsVars, outbox>>

voteOnPoll_Create(r) ==
  /\ req[r].kind = "pollvote" /\ req[r].pc = "insert"
  /\ IF UniqueViolation(req[r].userId, req[r].optionId)
     THEN /\ Fail(r, req[r], PrismaError("P2002"), "insert")
          /\ UNCHANGED <<votes, nextVoteId>>
     ELSE /\ votes' = votes \cup {[id |-> nextVoteId, userId |-> req[r].userId,
                                   pollOptionId |-> req[r].optionId,
                                   createdAt |-> now]}
          /\ nextVoteId' = nextVoteId + 1
          /\ req' = [req EXCEPT ![r].pc = "results", ![r].created = nextVoteId]
  /\ UNCHANGED <<now, dbVars, wsVars, outbox>>

\* The broadcast of voteOnPoll and its return to the controller.
voteOnPoll_Broadcast(r) ==
  /\ req[r].kind = "pollvote" /\ req[r].pc = "broadcast"
  /\ outbox' = broadcastToPoll(req[r].pollId,
                               [type |-> "vote_cast", pollId |-> req[r].pollId,
                                results |-> req[r].results[1], timestamp |-> now])
  /\ Respond(r, req[r], 200, "")
  /\ UNCHANGED <<now, dbVars, votes, nextVoteId, wsVars>>

-----------------------------------------------------------------------------

Tick(t) ==
  /\ t > now
  /\ now' = t
  /\ UNCHANGED <<dbVars, votes, nextVoteId, req, wsVars, outbox>>

\* The polls a connection asks for in Spec (a refused subscription leaves
\* only an error message behind).
PublishedPolls == {p \in PollIds : p = "p1"}

Next ==
  \/ \E r \in Slots, p \in PollArgs, o \in OptionArgs, u \in Users :
       castVote_Start(r, p, o, u)
  \/ \E r \in Slots : castVote_Option(r)
  \/ \E r \in Slots : castVote_Check(r)
  \/ \E r \in Slots : castVote_Create(r)
  \/ \E r \in Slots, v \in VoteIds, u \in Users : retractVote_Start(r, v, u)
  \/ \E r \in Slots : retractVote_Delete(r)
  \/ \E r \in Slots : Results(r)
  \/ \E r \in Slots : Broadcast(r)
  \/ \E c \in FirstConn : Connect(c)
  \/ /\ msgCount < MaxMsg
     /\ \E c \in FirstConn, p \in PublishedPolls :
          handleSubscribeToPoll_Start(c, p, TRUE)
  \/ \E m \in pending : handleSubscribeToPoll_Resume(m)
  \/ \E c \in FirstConn : handleDisconnect(c)

\* Requests, one connection and its subscriptions, at one instant.
Spec == Init /\ [][Next]_vars


\* No request is in flight.
Quiet == \A q \in Slots : req[q].pc \in {"idle", "done"}

\* Requests that do not overlap: one is sent when the one before is answered.
NextSeq ==
  \/ /\ Quiet
     /\ \E r \in Slots, p \in PollArgs, o \in OptionArgs, u \in Users :
          castVote_Start(r, p, o, u)
  \/ \E r \in Slots : castVote_Option(r)
  \/ \E r \in Slots : castVote_Check(r)
  \/ \E r \in Slots : castVote_Create(r)
  \/ /\ Quiet
     /\ \E r \in Slots, v \in VoteIds, u \in Users : retractVote_Start(r, v, u)
  \/ \E r \in Slots : retractVote_Delete(r)
  \/ \E r \in Slots : Results(r)
  \/ \E r \in Slots : Broadcast(r)
  \/ \E c \in FirstConn : Connect(c)
  \/ /\ msgCount < MaxMsg
     /\ \E c \in FirstConn, p \in PublishedPolls :
          handleSubscribeToPoll_Start(c, p, TRUE)
  \/ \E m \in pending : handleSubscribeToPoll_Resume(m)
  \/ \E c \in FirstConn : handleDisconnect(c)

SpecSeq == Init /\ [][NextSeq]_vars

\* The same with the clock running.
NextClock == NextSeq \/ \E t \in ClockValues : Tick(t)

SpecClock == Init /\ [][NextClock]_vars

\* A database with two published polls and no vote.
InitWs ==
  /\ now = 0
  /\ polls = AggPolls
  /\ isPublished = [p \in AggPolls |-> p # "p2"]
  /\ options = OptionIds \cup {"e", "f", "g"}
  /\ votes = {}
  /\ nextVoteId = 1
  /\ req = [r \in Slots |-> IdleReq]
  /\ readyState = [c \in Conns |-> 0]
  /\ wsSubs = [c \in Conns |-> {}]
  /\ subscriptions = EmptyMap
  /\ pending = {}
  /\ outbox = [c \in Conns |-> <<>>]
  /\ msgCount = 0

\* What a client can send as pollId.
WsPollArgs == AggPolls \cup {GhostPoll, Missing}
\* The lookups of the subscribe handler: of each pollId, answered, and one that
\* the storage layer rejects.
WsLookups == (WsPollArgs \X {TRUE}) \cup {<<"p1", FALSE>>}
\* Unsubscribing from an unpublished poll is as from an unknown one: neither
\* has subscribers.
WsLeaveArgs == WsPollArgs \ {"p2"}

\* The registry: two connections and the messages they send.
NextWs ==
  \/ \E c \in Conns : Connect(c)
  \/ /\ msgCount < MaxWsMsg
     /\ \E c \in Conns, a \in WsLookups :
          handleSubscribeToPoll_Start(c, a[1], a[2])
  \/ \E m \in pending : handleSubscribeToPoll_Resume(m)
  \/ /\ msgCount < MaxWsMsg
     /\ \E c \in Conns, p \in WsLeaveArgs : handleUnsubscribeFromPoll(c, p)
  \/ /\ msgCount < MaxWsMsg
     /\ \E p \in {"p1", "p3"} : wssBroadcast(p)
  \/ \E c \in Conns : handleDisconnect(c)

SpecWs == InitWs /\ [][NextWs]_vars

\* Calls of getPollResults on stored tallies, with a connection subscribing.
NextAgg ==
  \/ \E r \in Slots, p \in AggPolls \cup {GhostPoll} : getPollResults_Call(r, p)
  \/ \E c \in FirstConn : Connect(c)
  \/ /\ msgCount < MaxMsg
     /\ \E c \in FirstConn, p \in PublishedPolls :
          handleSubscribeToPoll_Start(c, p, TRUE)
  \/ \E m \in pending : handleSubscribeToPoll_Resume(m)

SpecAgg == InitAgg /\ [][NextAgg]_vars

\* WebSocketService.handleMessage for the messages that reach no subscription
\* handler: a ping, a message of unknown type, and one that is not JSON.
MessageKinds == {"ping", "unknown", "malformed"}

\* (Variant: a message that cannot be parsed is dropped without a reply.)
handleMessage_Silent(ws, kind) ==
  /\ readyState[ws] = OPEN
  /\ msgCount' = msgCount + 1
  /\ outbox' = CASE kind = "ping" -> send(ws, [type |-> "pong", timestamp |-> now])
                 [] kind = "malformed" -> outbox
                 [] OTHER -> sendError(ws, "Unknown message type")
  /\ UNCHANGED <<now, dbVars, votes, nextVoteId, req, readyState, wsSubs,
                 subscriptions, pending>>

\* (Variant: a message that is rejected costs the client its subscriptions.)
handleMessage_Reset(ws, kind) ==
  /\ readyState[ws] = OPEN
  /\ msgCount' = msgCount + 1
  /\ outbox' = CASE kind = "ping" -> send(ws, [type |-> "pong", timestamp |-> now])
                 [] kind = "malformed" -> sendError(ws, "Invalid message format")
                 [] OTHER -> sendError(ws, "Unknown message type")
  /\ subscriptions' = IF kind = "ping" THEN subscriptions
                      ELSE DisconnectAll(subscriptions, ws, wsSubs[ws])
  /\ UNCHANGED <<now, dbVars, votes, nextVoteId, req, readyState, wsSubs, pending>>

handleMessage(ws, kind) ==
  /\ readyState[ws] = OPEN
  /\ msgCount' = msgCount + 1
  /\ outbox' = CASE kind = "ping" -> send(ws, [type |-> "pong", timestamp |-> now])
                 [] kind = "malformed" -> sendError(ws, "Invalid message format")
                 [] OTHER -> sendError(ws, "Unknown message type")
  /\ UNCHANGED <<now, dbVars, votes, nextVoteId, req, readyState, wsSubs,
                 subscriptions, pending>>

\* Requests one after the other and every kind of message of one connection.
NextFrame ==
  \/ /\ Quiet
     /\ \E r \in Slots, p \in PublishedPolls, u \in Users :
          \E o \in {x \in OptionIds : OptionPoll(x) = p} : castVote_Start(r, p, o, u)
  \/ \E r \in Slots : castVote_Option(r)
  \/ \E r \in Slots : castVote_Check(r)
  \/ \E r \in Slots : castVote_Create(r)
  \/ /\ Quiet
     /\ \E r \in Slots, v \in VoteIds, u \in Users : retractVote_Start(r, v, u)
  \/ \E r \in Slots : retractVote_Delete(r)
  \/ \E r \in Slots : Results(r)
  \/ \E r \in Slots : Broadcast(r)
  \/ /\ Quiet
     /\ \E r \in Slots, p \in PollIds : getPollResults_Call(r, p)
  \/ \E c \in FirstConn : Connect(c)
  \/ /\ msgCount < MaxWsMsg
     /\ \E c \in FirstConn, p \in PollArgs : handleSubscribeToPoll_Start(c, p, TRUE)
  \/ \E m \in pending : handleSubscribeToPoll_Resume(m)
  \/ /\ msgCount < MaxWsMsg
     /\ \E c \in FirstConn, p \in PublishedPolls : handleUnsubscribeFromPoll(c, p)
  \/ /\ msgCount < MaxWsMsg
     /\ \E c \in FirstConn, k \in MessageKinds : handleMessage(c, k)
  \/ /\ msgCount < MaxWsMsg
     /\ \E p \in PublishedPolls : wssBroadcast(p)
  \/ \E c \in FirstConn : handleDisconnect(c)

SpecFrame == Init /\ [][NextFrame]_vars

\* One connection and two published polls.
NextMulti ==
  \/ \E c \in FirstConn : Connect(c)
  \/ /\ msgCount < MaxMultiMsg
     /\ \E c \in FirstConn, p \in {"p1", "p3"} : handleSubscribeToPoll_Start(c, p, TRUE)
  \/ \E m \in pending : handleSubscribeToPoll_Resume(m)
  \/ /\ msgCount < MaxMultiMsg
     /\ \E c \in FirstConn, p \in {"p1", "p3"} : handleUnsubscribeFromPoll(c, p)
  \/ /\ msgCount < MaxMultiMsg
     /\ \E p \in {"p1", "p3"} : wssBroadcast(p)
  \/ \E c \in FirstConn : handleDisconnect(c)

SpecMulti == InitWs /\ [][NextMulti]_vars

\* Votes on poll p1 while its creator and another user publish and unpublish it.
NextPub ==
  \/ \E r \in Slots, u \in Users :
       \E o \in {x \in OptionIds : OptionPoll(x) = "p1"} : castVote_Start(r, "p1", o, u)
  \/ \E r \in Slots : castVote_Option(r)
  \/ \E r \in Slots : castVote_Check(r)
  \/ \E r \in Slots : castVote_Create(r)
  \/ \E r \in Slots : Results(r)
  \/ \E r \in Slots : Broadcast(r)
  \/ \E r \in Slots, p \in {"p1", Missing}, u \in Users, publish, joi \in BOOLEAN :
       updatePoll_Start(r, p, u, publish, joi)
  \/ \E r \in Slots : updatePoll_Write(r)

SpecPub == Init /\ [][NextPub]_vars

\* The options of the three-option poll p3 deleted while votes are cast on it.
DeleteArgs == {"e", "f", "g", GhostOption}

NextOpt ==
  \/ \E r \in Slots, o \in DeleteArgs, u \in Users, joi \in BOOLEAN :
       deletePollOption_Start(r, o, u, joi)
  \/ \E r \in Slots : deletePollOption_Count(r)
  \/ \E r \in Slots : deletePollOption_Remaining(r)
  \/ \E r \in Slots, a \in ReferentialActions : deletePollOption_Delete(r, a)
  \/ \E r \in Slots, o \in {"e", "f"}, u \in Users : castVote_Start(r, "p3", o, u)
  \/ \E r \in Slots : castVote_Option(r)
  \/ \E r \in Slots : castVote_Check(r)
  \/ \E r \in Slots : req[r].optionId \in options /\ castVote_Create(r)
  \/ \E r \in Slots : castVote_Create_NoOption(r)
  \/ \E r \in Slots : Results(r)
  \/ \E r \in Slots : Broadcast(r)

SpecOpt == InitWs /\ [][NextOpt]_vars

\* The two vote entry points, for users of whom u1 has voted for option a.
InitVoted ==
  /\ now = 0
  /\ polls = PollIds
  /\ isPublished = [p \in PollIds |-> p = "p1"]
  /\ options = OptionIds
  /\ votes = {[id |-> 1, userId |-> "u1", pollOptionId |-> "a", createdAt |-> 0]}
  /\ nextVoteId = 2
  /\ req = [r \in Slots |-> IdleReq]
  /\ readyState = [c \in Conns |-> 0]
  /\ wsSubs = [c \in Conns |-> {}]
  /\ subscriptions = EmptyMap
  /\ pending = {}
  /\ outbox = [c \in Conns |-> <<>>]
  /\ msgCount = 0

NextEntry ==
  \/ \E r \in Slots, o \in {"a", "b", "c"}, u \in Users : castVote_Start(r, "p1", o, u)
  \/ \E r \in Slots : castVote_Option(r)
  \/ \E r \in Slots : castVote_Check(r)
  \/ \E r \in Slots : castVote_Create(r)
  \/ \E r \in Slots : Results(r)
  \/ \E r \in Slots : req[r].kind = "cast" /\ Broadcast(r)
  \/ \E r \in Slots, o \in {"a", "b", "c"}, u \in Users : voteOnPoll_Start(r, "p1", o, u)
  \/ \E r \in Slots : voteOnPoll_Option(r)
  \/ \E r \in Slots : voteOnPoll_Check(r)
  \/ \E r \in Slots : voteOnPoll_Create(r)
  \/ \E r \in Slots : voteOnPoll_Broadcast(r)

SpecEntry == InitVoted /\ [][NextEntry]_vars

\* Requests one after the other on a store that holds the vote of u1.
SpecRetract == InitVoted /\ [][NextSeq]_vars

\* Votes cast one after the other on the published poll, watched by two
\* connections whose sends may throw.
NextFail ==
  \/ /\ Quiet
     /\ \E r \in Slots, p \in PublishedPolls, u \in Users :
          \E o \in {x \in OptionIds : OptionPoll(x) = p} : castVote_Start(r, p, o, u)
  \/ \E r \in Slots : castVote_Option(r)
  \/ \E r \in Slots : castVote_Check(r)
  \/ \E r \in Slots : castVote_Create(r)
  \/ \E r \in Slots : Results(r)
  \/ \E r \in Slots : Broadcast(r)
  \/ \E r \in Slots, bad \in Conns, reached \in SUBSET Conns :
       Broadcast_SendThrows(r, bad, reached)
  \/ \E c \in Conns : Connect(c)
  \/ /\ msgCount < MaxWsMsg
     /\ \E c \in Conns, p \in PublishedPolls :
          handleSubscribeToPoll_Start(c, p, TRUE)
  \/ \E m \in pending : handleSubscribeToPoll_Resume(m)
  \/ \E c \in Conns : handleDisconnect(c)

SpecFail == Init /\ [][NextFail]_vars
-----------------------------------------------------------------------------
\* Properties.

\* A request is answered in this step.
Completes(r) == req[r].pc # "done" /\ req'[r].pc = "done"

\* No retraction has been requested.
OnlyCasts == \A r \in Slots : req[r].kind # "retract"

IsPollUpdate(m, pollId) == m.type = "poll_update" /\ m.pollId = pollId

Subscribed(c, pollId) ==
  pollId \in DOMAIN subscriptions /\ c \in subscriptions[pollId]

\* C1: every reachable state of the vote store holds at most one vote per
\* (user, poll) pair.
C1_OneVotePerUserPoll ==
  \A u \in Users, p \in PollIds : Cardinality(getUserVotesForPoll(u, p)) <= 1

\* C2: of two castVote requests of one user on one poll that both passed the
\* existing-vote check before either inserted, exactly one succeeds, the other
\* gets Conflict, and one vote row of that user on that poll exists.
C2_RaceOneWinner ==
  \A r, q \in Slots :
    (/\ r # q /\ q \in req[r].raced
     /\ req[r].pc = "done" /\ req[q].pc = "done"
     /\ OnlyCasts)
    => /\ \/ req[r].status = 200 /\ req[q].status = 409
          \/ req[r].status = 409 /\ req[q].status = 200
       /\ Cardinality(getUserVotesForPoll(req[r].userId, req[r].pollId)) = 1

C4_TotalsNeverDecrease ==
  OnlyCasts =>
    \A c \in Conns, p \in PollIds :
      \A i, j \in DOMAIN outbox[c] :
        (i < j /\ IsPollUpdate(outbox[c][i], p) /\ IsPollUpdate(outbox[c][j], p))
        => outbox[c][i].data.results.totalVotes <= outbox[c][j].data.results.totalVotes

\* P(r, p, o, u) holds of every step of a castVote request r, p, o and u
\* being the arguments of the request.
ForCastStep(P(_, _, _, _)) ==
  \A r \in Slots :
    (req'[r] # req[r] /\ req'[r].kind = "cast")
    => IF req[r].pc = "idle"
       THEN \A p \in PollArgs, o \in OptionArgs, u \in Users :
              castVote_Start(r, p, o, u) => P(r, p, o, u)
       ELSE P(r, req[r].pollId, req[r].optionId, req[r].userId)

InvalidOption(o, p) == o \notin options \/ OptionPoll(o) # p

\* The error of the first violated precondition, in the order poll exists,
\* poll is published, option belongs to the poll, no vote yet (0: none).
FirstViolated(p, o, u) ==
  IF p \notin polls THEN 404
  ELSE IF ~isPublished[p] THEN 403
  ELSE IF InvalidOption(o, p) THEN 400
  ELSE IF \E v \in votes : v.userId = u /\ OptionPoll(v.pollOptionId) = p THEN 409
  ELSE 0

PreconditionStages == {"args", "poll", "published", "option", "voted"}

\* C5 (as claimed): a castVote request that fails a precondition reports the
\* error of the first violated one.
C5_FirstViolatedReported ==
  [][ForCastStep(LAMBDA r, p, o, u :
       (Completes(r) /\ req'[r].stage \in PreconditionStages)
       => req'[r].status = FirstViolated(p, o, u))
    ]_vars

\* C5 (amended): a request without an optionId fails with InvalidInput before
\* the poll is looked up; a request that carries all identifiers and fails a
\* precondition reports the error of the first violated one; and a request
\* passes the last check only when none is violated.
C5_FirstViolatedAfterArgs ==
  [][ForCastStep(LAMBDA r, p, o, u :
       /\ (Completes(r) /\ req'[r].stage \in PreconditionStages)
          => req'[r].status = IF o = Missing THEN 400 ELSE FirstViolated(p, o, u)
       /\ req'[r].pc = "insert" => FirstViolated(p, o, u) = 0)
    ]_vars

\* A request that violates two preconditions at once has been answered.
C5_Witness ==
  \E r \in Slots : req[r].kind = "cast" /\ req[r].pc = "done" /\ req[r].stage = "poll"

\* C6 (as claimed): castVote on an existing unpublished poll fails with
\* Forbidden whatever the option and user, and the vote store is unchanged.
C6_UnpublishedForbidden ==
  [][ForCastStep(LAMBDA r, p, o, u :
       (req[r].pc = "idle" /\ p \in polls /\ ~isPublished[p])
       => (req'[r].pc = "done" /\ req'[r].status = 403 /\ votes' = votes))
    ]_vars

\* C6 (amended): so it is for every request that carries an optionId; one
\* without fails with InvalidInput, the vote store unchanged as well.
C6_UnpublishedForbiddenWithOption ==
  [][ForCastStep(LAMBDA r, p, o, u :
       (req[r].pc = "idle" /\ p \in polls /\ ~isPublished[p])
       => /\ req'[r].pc = "done" /\ votes' = votes
          /\ req'[r].status = IF o = Missing THEN 400 ELSE 403)
    ]_vars

C6_Witness ==
  \E r \in Slots :
    req[r].kind = "cast" /\ req[r].pc = "done" /\ req[r].stage = "published"

C8_FailureHasNoEffect ==
  [][ForCastStep(LAMBDA r, p, o, u :
       req[r].pc \in {"idle", "option", "check"}
       => /\ votes' = votes /\ outbox' = outbox
          /\ Completes(r) => req'[r].stage \in PreconditionStages)
    ]_vars

\* A request is refused for an existing vote while a subscriber of its poll
\* is connected.
C8_Witness ==
  \E r \in Slots, c \in Conns :
    /\ req[r].kind = "cast" /\ req[r].pc = "done" /\ req[r].stage = "voted"
    /\ readyState[c] = OPEN /\ \E p \in PollIds : Subscribed(c, p)

\* C9: a castVote whose insert the storage layer rejects with P2002 is
\* answered 409 (Conflict).
C9_UniqueViolationIsConflict ==
  \A r \in Slots :
    (req[r].kind = "cast" /\ req[r].pc = "done" /\ req[r].stage = "insert")
    => req[r].status = 409

C9_Witness ==
  \E r \in Slots :
    req[r].kind = "cast" /\ req[r].pc = "done" /\ req[r].stage = "insert"

\* C10: a retractVote that passed the ownership and window checks and whose
\* delete found the row is answered with success.
C10_RetractSucceeds ==
  \A r \in Slots :
    (/\ req[r].kind = "retract" /\ req[r].pc = "done"
     /\ req[r].stage \notin {"args", "vote", "owner", "window", "delete"})
    => req[r].status = 200

\* P(r, v, u) holds of every step in which retractVote(v, u) is entered as
\* request r.
ForRetractStart(P(_, _, _)) ==
  \A r \in Slots :
    (req[r].pc = "idle" /\ req'[r].kind = "retract")
    => \A v \in VoteIds, u \in Users : retractVote_Start(r, v, u) => P(r, v, u)

\* The stored vote row with id v.
VoteRow(v) == CHOOSE x \in votes : x.id = v

\* C11: retractVote by the owner of a vote older than one hour is answered
\* Forbidden with the vote store and every connection untouched; a vote of at
\* most one hour passes the window check (the request goes on to the delete).
C11_WindowEnforced ==
  [][ForRetractStart(LAMBDA r, v, u :
       ((\E x \in votes : x.id = v) /\ VoteRow(v).userId = u)
       => IF now - VoteRow(v).createdAt > oneHour
          THEN /\ req'[r].pc = "done" /\ req'[r].status = 403
               /\ req'[r].stage = "window"
               /\ votes' = votes /\ outbox' = outbox
          ELSE req'[r].pc = "delete")
    ]_vars

\* An owner has been refused for age one millisecond past the hour, with a
\* subscriber connected.
C11_Witness ==
  /\ \E r \in Slots :
       req[r].kind = "retract" /\ req[r].pc = "done" /\ req[r].stage = "window"
  /\ \E c \in Conns : readyState[c] = OPEN /\ Subscribed(c, "p1")

\* C12: retractVote of an unknown vote id is answered NotFound, and of a vote
\* of another user Forbidden, whatever the age of the vote (the owner is
\* checked first); no vote is deleted and nothing is sent.
C12_NotFoundThenOwner ==
  [][ForRetractStart(LAMBDA r, v, u :
       /\ (\A x \in votes : x.id # v)
          => /\ req'[r].pc = "done" /\ req'[r].status = 404
             /\ votes' = votes /\ outbox' = outbox
       /\ ((\E x \in votes : x.id = v) /\ VoteRow(v).userId # u)
          => /\ req'[r].pc = "done" /\ req'[r].status = 403
             /\ req'[r].stage = "owner"
             /\ votes' = votes /\ outbox' = outbox)
    ]_vars

\* Both refusals have happened, the second for a vote past its window.
C12_Witness ==
  /\ \E r \in Slots :
       req[r].kind = "retract" /\ req[r].pc = "done" /\ req[r].stage = "owner"
  /\ \E v \in votes : now - v.createdAt > oneHour

\* getPollResults returns to request r in this step.
ResultsCall(r) ==
  req[r].pc = "idle" /\ req'[r].kind = "results" /\ req'[r].status = 200

\* The integer nearest to 100 * n / d, halves up.
HalfUp(n, d) ==
  CHOOSE k \in 0..100 : 2 * d * k <= 200 * n + d /\ 200 * n + d < 2 * d * (k + 1)

RECURSIVE SumPercentages(_)
SumPercentages(s) ==
  IF s = <<>> THEN 0 ELSE Head(s).percentage + SumPercentages(Tail(s))

\* C13: getPollResults lists every option of the poll once, with voteCount
\* the number of stored votes on the option, totalVotes the sum of the
\* voteCounts, and percentage round(100 * voteCount / totalVotes), or 0 when
\* there is no vote.
C13_ResultsAsSpecified ==
  [][\A r \in Slots :
       ResultsCall(r)
       => LET res == req'[r].results[1]
              opts == {o \in options : OptionPoll(o) = req'[r].pollId}
          IN /\ Len(res.results) = Cardinality(opts)
             /\ \A o \in opts :
                  Cardinality({i \in DOMAIN res.results : res.results[i].id = o}) = 1
             /\ \A i \in DOMAIN res.results :
                  /\ res.results[i].voteCount
                       = Cardinality({v \in votes : v.pollOptionId = res.results[i].id})
                  /\ res.results[i].percentage
                       = IF res.totalVotes > 0
                         THEN HalfUp(res.results[i].voteCount, res.totalVotes)
                         ELSE 0
             /\ res.totalVotes = SumCounts(res.results)
             /\ res.totalVotes
                  = Cardinality({v \in votes : OptionPoll(v.pollOptionId) = req'[r].pollId})
    ]_vars

\* C14: when there are votes, the percentages getPollResults returns for a
\* poll of n options add up to 100 within n \div 2.
C14_PercentagesNearHundred ==
  \A r \in Slots :
    (req[r].kind = "results" /\ req[r].status = 200
     /\ req[r].results[1].totalVotes > 0)
    => LET sum == SumPercentages(req[r].results[1].results)
           n == Len(req[r].results[1].results)
       IN sum - 100 <= n \div 2 /\ 100 - sum <= n \div 2

\* Results of a three-option poll whose percentages add up to 99.
C14_Witness ==
  \E r \in Slots :
    /\ req[r].kind = "results" /\ req[r].status = 200
    /\ Len(req[r].results[1].results) = 3
    /\ SumPercentages(req[r].results[1].results) = 99

\* C15: a call of getPollResults, answered with results or with NotFound,
\* leaves the poll, option and vote stores, the registry and the messages sent
\* as they were.
C15_ResultsChangeNothing ==
  [][\A r \in Slots :
       (req[r].pc = "idle" /\ req'[r].kind = "results")
       => /\ req'[r].status \in {200, 404}
          /\ UNCHANGED <<polls, isPublished, options, votes, nextVoteId>>
          /\ UNCHANGED <<subscriptions, wsSubs, readyState, outbox>>
    ]_vars

\* With a connection subscribed to a poll, the results of that poll have been
\* returned and an unknown poll has been answered NotFound.
C15_Witness ==
  \E r, q \in Slots, c \in Conns :
    /\ req[r].kind = "results" /\ req[r].status = 200
    /\ Subscribed(c, req[r].pollId) /\ readyState[c] = OPEN
    /\ req[q].kind = "results" /\ req[q].status = 404

\* The results res are the tallies of the stored votes on poll p.
TalliesOf(res, p) ==
  /\ res.totalVotes = Cardinality({v \in votes : OptionPoll(v.pollOptionId) = p})
  /\ Len(res.results) = Len(OptionsOf(p))
  /\ \A i \in DOMAIN res.results :
       /\ res.results[i].id = OptionsOf(p)[i]
       /\ res.results[i].voteCount
            = Cardinality({v \in votes : v.pollOptionId = res.results[i].id})
       /\ res.results[i].percentage
            = IF res.totalVotes > 0
              THEN HalfUp(res.results[i].voteCount, res.totalVotes) ELSE 0

OneReply(c) == Len(outbox'[c]) = Len(outbox[c]) + 1
Reply(c) == outbox'[c][Len(outbox'[c])]

\* The registry as relations: of the map, and of the connections' own sets.
Rel == {x \in Conns \X AggPolls : Subscribed(x[1], x[2])}
WsRel == {x \in Conns \X AggPolls : <<"poll", x[2]>> \in wsSubs[x[1]]}

Refused(m) == m.rejected \/ m.pollId \notin polls \/ ~isPublished[m.pollId]

\* C17: a subscribe_to_poll message gets one reply on its (open) connection
\* and its handler ends: an error, the registry unchanged, when the pollId is
\* missing, the poll unknown or unpublished (or the lookup is rejected);
\* otherwise subscription_confirmed, the connection being in the poll's set.
C17_SubscribeRepliesOnce ==
  [][/\ \A c \in Conns, p \in WsPollArgs, answers \in BOOLEAN :
          (msgCount' = msgCount + 1 /\ handleSubscribeToPoll_Start(c, p, answers))
          => /\ subscriptions' = subscriptions /\ wsSubs' = wsSubs
             /\ IF p = Missing
                THEN /\ OneReply(c) /\ Reply(c).type = "error"
                     /\ pending' = pending
                ELSE /\ outbox' = outbox
                     /\ Cardinality(pending') = Cardinality(pending) + 1
     /\ \A m \in pending :
          (handleSubscribeToPoll_Resume(m) /\ readyState[m.ws] = OPEN)
          => /\ OneReply(m.ws)
             /\ \A c \in Conns \ {m.ws} : outbox'[c] = outbox[c]
             /\ pending' = pending \ {m}
             /\ IF Refused(m)
                THEN /\ Reply(m.ws).type = "error"
                     /\ subscriptions' = subscriptions /\ wsSubs' = wsSubs
                ELSE /\ Reply(m.ws).type = "subscription_confirmed"
                     /\ Reply(m.ws).pollId = m.pollId
                     /\ Rel' = Rel \cup {<<m.ws, m.pollId>>}
                     /\ WsRel' = WsRel \cup {<<m.ws, m.pollId>>}
    ]_vars

\* A connection has been refused an unknown poll and confirmed another.
C17_Witness ==
  \E c \in Conns, i, j \in 1..MaxWsMsg :
    /\ i \in DOMAIN outbox[c] /\ j \in DOMAIN outbox[c]
    /\ outbox[c][i].type = "error" /\ outbox[c][i].message = "Poll not found"
    /\ outbox[c][j].type = "subscription_confirmed"
    /\ Subscribed(c, outbox[c][j].pollId)

\* C18: a subscription of a connection to a poll it is subscribed to leaves
\* the map and the connection's set as they are, and a broadcast for a poll
\* sends one poll_update to each open subscriber and nothing to the others.
C18_SubscribeIdempotent ==
  [][/\ \A m \in pending :
          (/\ handleSubscribeToPoll_Resume(m) /\ ~Refused(m)
           /\ <<m.ws, m.pollId>> \in Rel \cap WsRel)
          => subscriptions' = subscriptions /\ wsSubs' = wsSubs
     /\ \A p \in AggPolls :
          (msgCount' = msgCount + 1 /\ wssBroadcast(p))
          => \A c \in Conns :
               IF Subscribed(c, p) /\ readyState[c] = OPEN
               THEN OneReply(c) /\ IsPollUpdate(Reply(c), p)
               ELSE outbox'[c] = outbox[c]
    ]_vars

\* A connection has been confirmed twice on one poll and has then received
\* one poll_update for it.
C18_Witness ==
  \E c \in Conns :
    /\ Len(outbox[c]) = 3
    /\ outbox[c][1].type = "subscription_confirmed"
    /\ outbox[c][2].type = "subscription_confirmed"
    /\ outbox[c][1].pollId = outbox[c][2].pollId
    /\ IsPollUpdate(outbox[c][3], outbox[c][1].pollId)

\* C19: unsubscribe_from_poll takes the relation (connection, poll), and no
\* other, out of the map and out of the connection's set; when the connection
\* is not subscribed to the poll the registry is unchanged.
C19_UnsubscribeRemovesOne ==
  [][\A c \in Conns, p \in WsPollArgs :
       (msgCount' = msgCount + 1 /\ handleUnsubscribeFromPoll(c, p))
       => /\ Rel' = Rel \ {<<c, p>>}
          /\ WsRel' = WsRel \ {<<c, p>>}
          /\ \A q \in DOMAIN subscriptions' : subscriptions'[q] # {}
          /\ <<c, p>> \notin Rel
             => subscriptions' = subscriptions /\ wsSubs' = wsSubs
    ]_vars

\* A connection has left a poll while another relation stays.
C19_Witness ==
  \E c \in Conns, i \in 1..MaxWsMsg :
    /\ i \in DOMAIN outbox[c]
    /\ outbox[c][i].type = "unsubscription_confirmed"
    /\ <<c, outbox[c][i].pollId>> \notin Rel \cup WsRel
    /\ Rel # {}

\* C20: every unsubscribe_from_poll message on an open connection is answered
\* with unsubscription_confirmed.
C20_UnsubscribeAnswered ==
  [][\A c \in Conns, p \in WsPollArgs :
       (msgCount' = msgCount + 1 /\ handleUnsubscribeFromPoll(c, p))
       => OneReply(c) /\ Reply(c).type = "unsubscription_confirmed"
    ]_vars

\* C21: when handleDisconnect has run for a connection, the connection is in
\* no poll's subscriber set and its own subscription set is empty.
C21_DisconnectClearsBoth ==
  [][\A c \in Conns :
       (readyState[c] = OPEN /\ handleDisconnect(c))
       => /\ \A p \in AggPolls : <<c, p>> \notin Rel'
          /\ wsSubs'[c] = {}
    ]_vars

\* C22: no key of the poll-to-connections map has an empty subscriber set.
C22_NoEmptySubscriberSet ==
  \A p \in DOMAIN subscriptions : subscriptions[p] # {}

\* The last subscriber of a poll has left it, or has closed.
C22_Witness ==
  /\ subscriptions = EmptyMap
  /\ \E c \in Conns :
       /\ wsSubs[c] # {} \/ \E i \in 1..MaxWsMsg :
                               /\ i \in DOMAIN outbox[c]
                               /\ outbox[c][i].type = "unsubscription_confirmed"
       /\ \E i \in 1..MaxWsMsg :
            /\ i \in DOMAIN outbox[c]
            /\ outbox[c][i].type = "subscription_confirmed"

\* C23: nothing is sent on a connection that is not open, and a broadcast for
\* a poll whose subscriber set holds a closed connection reaches the open ones.
C23_NothingToClosed ==
  [][/\ \A c \in Conns : readyState[c] # OPEN => outbox'[c] = outbox[c]
     /\ \A p \in AggPolls :
          (msgCount' = msgCount + 1 /\ wssBroadcast(p))
          => \A c \in Conns :
               (Subscribed(c, p) /\ readyState[c] = OPEN)
               => OneReply(c) /\ IsPollUpdate(Reply(c), p)
    ]_vars

\* A closed connection is in the subscriber set of a poll for which an open
\* connection has received a poll_update.
C23_Witness ==
  \E c, d \in Conns, p \in AggPolls :
    /\ readyState[c] = 3 /\ Subscribed(c, p)
    /\ readyState[d] = OPEN /\ Subscribed(d, p)
    /\ outbox[d] # <<>> /\ IsPollUpdate(outbox[d][Len(outbox[d])], p)

\* C24: a connection that is closed and has no handler in flight is in no
\* poll's subscriber set.
C24_ClosedIsUnreferenced ==
  \A c \in Conns :
    (readyState[c] = 3 /\ \A m \in pending : m.ws # c)
    => \A p \in AggPolls : ~Subscribed(c, p)

\* The confirmations connection c has been sent for poll p, and whether the
\* last of them confirms a subscription.
Confirmations(c, p) ==
  {i \in DOMAIN outbox[c] :
     /\ outbox[c][i].type \in {"subscription_confirmed", "unsubscription_confirmed"}
     /\ outbox[c][i].pollId = p}

ConfirmedOn(c, p) ==
  /\ Confirmations(c, p) # {}
  /\ LET last == CHOOSE i \in Confirmations(c, p) :
                    \A j \in Confirmations(c, p) : j <= i
     IN outbox[c][last].type = "subscription_confirmed"

\* C25: broadcastToPoll sends one poll_update, with the payload, on each open
\* connection whose last confirmation for the poll is of a subscription, and
\* nothing on any other connection.
C25_BroadcastToSubscribersOnly ==
  [][\A p \in AggPolls :
       (msgCount' = msgCount + 1 /\ wssBroadcast(p))
       => \A c \in Conns :
            IF readyState[c] = OPEN /\ ConfirmedOn(c, p)
            THEN /\ OneReply(c) /\ IsPollUpdate(Reply(c), p)
                 /\ Reply(c).data = getPollResults(p)
                 /\ Reply(c).timestamp = now
            ELSE outbox'[c] = outbox[c]
    ]_vars

\* One connection has received the poll_update of its poll; another, open and
\* subscribed to another poll only, has received none.
C25_Witness ==
  \E c, d \in Conns, p, q \in AggPolls :
    /\ c # d /\ p # q
    /\ outbox[c] # <<>> /\ IsPollUpdate(outbox[c][Len(outbox[c])], p)
    /\ readyState[d] = OPEN /\ Subscribed(d, q) /\ ~Subscribed(d, p)
    /\ \A i \in DOMAIN outbox[d] : outbox[d][i].type # "poll_update"
\* C26: when the send to one subscriber fails during a broadcast, that
\* subscriber gets nothing and every other open subscriber of the poll gets
\* the poll_update.
C26_FailedSendSkipsOne ==
  [][\A r \in Slots, bad \in Conns, reached \in SUBSET Conns :
       (req[r].pc = "broadcast" /\ req'[r].stage = "broadcast"
        /\ Broadcast_SendThrows(r, bad, reached))
       => /\ outbox'[bad] = outbox[bad]
          /\ \A c \in Conns \ {bad} :
               (Subscribed(c, req[r].pollId) /\ readyState[c] = OPEN)
               => OneReply(c) /\ IsPollUpdate(Reply(c), req[r].pollId)
    ]_vars

\* C27: a castVote that has inserted its vote is answered with success,
\* whatever happens on the broadcast path.
C27_InsertedVoteSucceeds ==
  [][\A r \in Slots :
       (req[r].kind = "cast" /\ req[r].created # 0 /\ Completes(r))
       => req'[r].status = 200
    ]_vars
\* The fields of a PollResult, as getPollResults returns it.
PollResultFields == {"question", "totalVotes", "results"}

\* C28: every poll_update has the fields type, pollId, data and timestamp, and
\* its data is a PollResult with nothing wrapped around it or added to it.
C28_DataIsPollResult ==
  \A c \in Conns :
    \A i \in DOMAIN outbox[c] :
      outbox[c][i].type = "poll_update"
      => /\ DOMAIN outbox[c][i] = {"type", "pollId", "data", "timestamp"}
         /\ DOMAIN outbox[c][i].data = PollResultFields
\* C29: a subscription to one poll takes away no subscription to another; a
\* connection leaves a poll's subscriber set only by its own unsubscribe from
\* that poll or by its close; and while it is open and subscribed to several
\* polls a broadcast for any of them reaches it.
C29_SeveralPolls ==
  [][\A c \in Conns :
       /\ (\E m \in pending : m.ws = c /\ handleSubscribeToPoll_Resume(m))
          => \A p \in AggPolls : Subscribed(c, p) => Subscribed(c, p)'
       /\ \A p \in AggPolls :
            (Subscribed(c, p) /\ ~Subscribed(c, p)')
            => handleUnsubscribeFromPoll(c, p) \/ handleDisconnect(c)
       /\ \A p \in AggPolls :
            (msgCount' = msgCount + 1 /\ wssBroadcast(p)
             /\ Subscribed(c, p) /\ readyState[c] = OPEN
             /\ \E q \in AggPolls \ {p} : Subscribed(c, q))
            => OneReply(c) /\ IsPollUpdate(Reply(c), p)
    ]_vars

\* A connection subscribed to two polls has received a poll_update of each.
C29_Witness ==
  \E c \in Conns, p, q \in AggPolls :
    /\ p # q /\ Subscribed(c, p) /\ Subscribed(c, q)
    /\ \E i, j \in DOMAIN outbox[c] :
         IsPollUpdate(outbox[c][i], p) /\ IsPollUpdate(outbox[c][j], q)
\* C30: the poll-to-connections map and the connections' own sets change only
\* in a subscribe, unsubscribe or disconnect step; a step of a request
\* (castVote, retractVote, getPollResults), a broadcast, a ping and a rejected
\* message leave both unchanged.
C30_RegistryFrame ==
  [][/\ (subscriptions' # subscriptions \/ wsSubs' # wsSubs)
        => \/ \E m \in pending : handleSubscribeToPoll_Resume(m)
           \/ \E c \in Conns, p \in PollIds : handleUnsubscribeFromPoll(c, p)
           \/ \E c \in Conns : handleDisconnect(c)
     /\ req' # req => UNCHANGED <<subscriptions, wsSubs>>
     /\ \A c \in Conns :
          (OneReply(c) /\ Reply(c).type \in {"poll_update", "pong", "error"})
          => UNCHANGED <<subscriptions, wsSubs>>
    ]_vars

\* A subscribed connection has been answered a ping and a rejected message,
\* and has had the poll_update of a successful vote.
C30_Witness ==
  \E c \in Conns, r \in Slots :
    /\ Subscribed(c, "p1") /\ wsSubs[c] # {}
    /\ req[r].kind = "cast" /\ req[r].status = 200
    /\ \E i, j, k \in DOMAIN outbox[c] :
         /\ outbox[c][i].type = "subscription_confirmed"
         /\ i < j /\ outbox[c][j].type = "pong"
         /\ i < k /\ outbox[c][k].type = "error"
    /\ \E i \in DOMAIN outbox[c] : outbox[c][i].type = "poll_update"
\* C31: on an open connection a ping is answered with one pong that carries a
\* timestamp, and a message that is not JSON or has an unknown type with one
\* error; the connection stays open and the handlers in flight stay in flight.
C31_PingAndRejects ==
  [][\A c \in Conns, k \in MessageKinds :
       (msgCount' = msgCount + 1 /\ pending' = pending /\ handleMessage(c, k))
       => /\ OneReply(c)
          /\ "timestamp" \in DOMAIN Reply(c)
          /\ Reply(c).type = (IF k = "ping" THEN "pong" ELSE "error")
          /\ \A d \in Conns \ {c} : outbox'[d] = outbox[d]
          /\ readyState' = readyState
    ]_vars

\* A connection was answered an error for a message that is not JSON, then a
\* pong, then the confirmation of a subscription.
C31_Witness ==
  \E c \in Conns :
    \E i, j, k \in DOMAIN outbox[c] :
      /\ i < j /\ j < k
      /\ outbox[c][i].type = "error"
      /\ outbox[c][i].message = "Invalid message format"
      /\ outbox[c][j].type = "pong"
      /\ outbox[c][k].type = "subscription_confirmed"
\* C32: a vote row is inserted only while its poll is published.
C32_InsertOnlyWhilePublished ==
  [][\A v \in votes' \ votes : isPublished[OptionPoll(v.pollOptionId)]]_vars
VotedOtherOption(r) ==
  /\ \E v \in votes : /\ v.userId = req[r].userId
                       /\ OptionPoll(v.pollOptionId) = req[r].pollId
                       /\ v.pollOptionId # req[r].optionId
  /\ \A v \in votes : ~(v.userId = req[r].userId /\ v.pollOptionId = req[r].optionId)

C36_ErrorLeavesStore ==
  [][\A r \in Slots :
       (req[r].kind \in {"cast", "retract"} /\ Completes(r) /\ req'[r].status # 200)
       => /\ votes' = votes
          /\ req[r].created = 0
          /\ ~(req[r].kind = "retract" /\ req[r].pc \in {"results", "broadcast"})
    ]_vars

\* Request q is a retraction that has deleted its vote.
Retracted(q) ==
  req[q].kind = "retract" /\ req[q].pc = "done" /\ req[q].stage = "pollOption"

\* The number of rows of a store for option o.
Tally(store, o) == Cardinality({v \in store : v.pollOptionId = o})

\* C37: a retraction that has deleted a vote leaves its user without a vote on
\* the poll; after it, a castVote of a user who has no vote on the poll passes
\* the existing-vote check and inserts its row, and the tallies are then those
\* of the other users' rows and that row only.
C37_RetractThenVote ==
  [][\A r, q \in Slots :
       /\ (req[q].kind = "retract" /\ ~Retracted(q) /\ Retracted(q)')
          => \A v \in votes' :
               ~(/\ v.userId = req[q].userId
                 /\ OptionPoll(v.pollOptionId)
                      = OptionPoll(req[q].vote[1].pollOptionId))
       /\ (Retracted(q) /\ req[r].kind = "cast"
           /\ getUserVotesForPoll(req[r].userId, req[r].pollId) = {})
          => /\ (req[r].pc = "check" /\ req'[r].pc # "check") => req'[r].pc = "insert"
             /\ (req[r].pc = "insert" /\ req'[r].pc # "insert")
                => /\ req'[r].pc = "results"
                   /\ LET only == {[id |-> 0, userId |-> req[r].userId,
                                    pollOptionId |-> req[r].optionId,
                                    createdAt |-> now]}
                      IN \A o \in OptionIds : Tally(votes', o) = Tally(votes \cup only, o)
       /\ (Retracted(q) /\ req[r].kind = "cast"
           /\ req[r].pc = "results" /\ req'[r].pc # "results")
          => /\ req'[r].pc = "broadcast"
             /\ \A i \in DOMAIN req'[r].results[1].results :
                  req'[r].results[1].results[i].voteCount
                    = Tally(votes, req'[r].results[1].results[i].id)
             /\ Cardinality(getUserVotesForPoll(req[r].userId, req[r].pollId)) = 1
    ]_vars

\* The vote of u1 was retracted and u1's next vote, for the other option, was
\* answered with success.
C37_Witness ==
  /\ \E q \in Slots : Retracted(q)
  /\ \E r \in Slots : req[r].kind = "cast" /\ req[r].status = 200
  /\ votes = {[id |-> 2, userId |-> "u1", pollOptionId |-> "b", createdAt |-> 0]}
\* C38: for an open connection the two directions of the registry agree: the
\* connection is in the subscriber set of a poll exactly when its own set
\* holds the entry of that poll.
C38_DirectionsAgree ==
  \A c \in Conns :
    readyState[c] = OPEN
    => \A p \in AggPolls : Subscribed(c, p) <=> <<"poll", p>> \in wsSubs[c]

\* Two open connections subscribed to a poll; one has unsubscribed again.
C38_Witness ==
  \E c, d \in Conns, p \in AggPolls :
    /\ c # d /\ readyState[c] = OPEN /\ readyState[d] = OPEN
    /\ Subscribed(c, p) /\ <<"poll", p>> \in wsSubs[c]
    /\ ~Subscribed(d, p) /\ wsSubs[d] = {}
    /\ \E i, j \in DOMAIN outbox[d] :
         /\ i < j
         /\ outbox[d][i].type = "subscription_confirmed" /\ outbox[d][i].pollId = p
         /\ outbox[d][j].type = "unsubscription_confirmed" /\ outbox[d][j].pollId = p
\* C39: the poll_update messages of a vote are those the same vote of any
\* other user would have produced (same poll, option and results).
C39_VoterNotRevealed ==
  [][\A r \in Slots :
       (req[r].kind = "cast" /\ req[r].pc = "broadcast" /\ Completes(r)
        /\ req'[r].status = 200)
       => \A u \in Users :
            outbox' = broadcastVoteUpdate(req[r].pollId, req[r].results[1],
                                          u, req[r].optionId)
    ]_vars
====
